---- MODULE Spec2Model ----
(***************************************************************************)
(* A model of the ash-alloc crate: the geometry helpers, the memory-type   *)
(* selection and MemoryBlock of src/lib.rs, and the linear and general     *)
(* sub-allocators (modules linear_allocator and general_allocator, which   *)
(* lib.rs declares; they are modelled from the design document).           *)
(***************************************************************************)
EXTENDS Integers, Sequences, FiniteSets, TLC

VARIABLES
    overflow_checks,  \* build profile: TRUE = overflow checks on (debug), FALSE = wrapping (release)
    cargo_features,   \* the cargo features the client enabled for the build
    geom,             \* the last call of a geometry helper: inputs and outcome
    mt_props,         \* vk::PhysicalDeviceMemoryProperties handed to find_memory_type_index
    mt_call,          \* the last call of find_memory_type_index: inputs and result
    dev_live,         \* device: handles of the device memory currently allocated
    dev_mapped,       \* device: handles of the device memory currently mapped
    dev_next,         \* device: the next fresh vk::DeviceMemory handle
    blocks,           \* the MemoryBlock values the program owns
    block_call,       \* the last MemoryBlock::new / destroy: arguments, device calls, result
    lin,              \* linear allocator under test
    lin_ref,          \* a freshly constructed linear allocator fed the same requests after free_all
    lin_run,          \* linear allocator: phase, last operation and the outcomes since free_all
    gen,              \* general allocator: pools of blocks with their chunk lists
    gen_handles,      \* general allocator: the allocation handles the client holds
    gen_call          \* general allocator: the last public call and its outcome

vars == <<overflow_checks, cargo_features, geom, mt_props, mt_call,
          dev_live, dev_mapped, dev_next, blocks, block_call,
          lin, lin_ref, lin_run, gen, gen_handles, gen_call>>

geom_vars == <<overflow_checks, geom>>

type_vars == <<mt_props, mt_call>>

block_vars == <<cargo_features, dev_live, dev_mapped, dev_next, blocks, block_call>>

linear_vars == <<lin, lin_ref, lin_run>>

general_vars == <<gen, gen_handles, gen_call>>

(***************************************************************************)
(* Machine integers.  u64 is modelled with WordBits bits; arithmetic that  *)
(* leaves the range wraps (release) or panics (overflow checks).           *)
(***************************************************************************)
WordBits == 8

U64Modulus == 2 ^ WordBits

U64Max == U64Modulus - 1

WrappingAdd(a, b) == (a + b) % U64Modulus

WrappingSub(a, b) == (a - b + U64Modulus) % U64Modulus

RECURSIVE BitAnd(_, _)
BitAnd(a, b) ==
    IF a = 0 \/ b = 0 THEN 0
    ELSE (a % 2) * (b % 2) + 2 * BitAnd(a \div 2, b \div 2)

\* The ! of a u64: every bit flipped.
BitNot(a) == U64Max - a

(***************************************************************************)
(* Geometry helpers (src/lib.rs 23-50)                                     *)
(***************************************************************************)
align_down_RoundsUp(offset, alignment) ==
    BitAnd(WrappingAdd(offset, WrappingSub(alignment, 1)), BitNot(WrappingSub(alignment, 1)))

align_down(offset, alignment) ==
    BitAnd(offset, BitNot(WrappingSub(alignment, 1)))

align_up_NoRound(offset, alignment) ==
    BitAnd(offset, BitNot(WrappingSub(alignment, 1)))

align_up(offset, alignment) ==
    BitAnd(WrappingAdd(offset, WrappingSub(alignment, 1)), BitNot(WrappingSub(alignment, 1)))

\* align_up panics under overflow checks when offset + (alignment - 1) leaves u64.
align_up_overflows(offset, alignment) ==
    alignment = 0 \/ offset + (alignment - 1) > U64Max

align_down_overflows(offset, alignment) == alignment = 0

is_on_same_page_EndExclusive(offset_lhs, size_lhs, offset_rhs, page_size) ==
    IF offset_lhs = 0 /\ size_lhs = 0 THEN FALSE
    ELSE LET end_lhs == WrappingAdd(offset_lhs, size_lhs)
             end_page_lhs == align_down(end_lhs, page_size)
             start_rhs == offset_rhs
             start_page_rhs == align_down(start_rhs, page_size)
         IN  end_page_lhs = start_page_rhs

is_on_same_page(offset_lhs, size_lhs, offset_rhs, page_size) ==
    IF offset_lhs = 0 /\ size_lhs = 0 THEN FALSE
    ELSE LET end_lhs == WrappingSub(WrappingAdd(offset_lhs, size_lhs), 1)
             end_page_lhs == align_down(end_lhs, page_size)
             start_rhs == offset_rhs
             start_page_rhs == align_down(start_rhs, page_size)
         IN  end_page_lhs = start_page_rhs

\* offset_lhs + size_lhs - 1 is evaluated left to right in u64: the sum may
\* overflow, and the subtraction underflows only when the sum is 0.
is_on_same_page_overflows(offset_lhs, size_lhs) ==
    /\ ~(offset_lhs = 0 /\ size_lhs = 0)
    /\ \/ offset_lhs + size_lhs > U64Max
       \/ offset_lhs + size_lhs < 1

has_granularity_conflict_Never(lhs_is_linear, rhs_is_linear) == FALSE

has_granularity_conflict(lhs_is_linear, rhs_is_linear) ==
    lhs_is_linear # rhs_is_linear

AllocationType == {"Buffer", "OptimalImage", "LinearImage"}

is_linear(allocation_type) ==
    CASE allocation_type = "Buffer" -> TRUE
      [] allocation_type = "OptimalImage" -> FALSE
      [] allocation_type = "LinearImage" -> TRUE

(***************************************************************************)
(* Calls of the geometry helpers on inputs drawn from both ends of u64     *)
(***************************************************************************)
GeomSpan == 5

GeomValues == (0 .. GeomSpan) \cup ((U64Max - GeomSpan) .. U64Max)

PowersOfTwo == {2 ^ k : k \in 0 .. (WordBits - 1)}

GeomIdle(a, s, b, p) ==
    [fn |-> "none", off_a |-> a, size_a |-> s, off_b |-> b, page |-> p,
     panicked |-> FALSE, same_page |-> FALSE, aligned |-> 0]

CallIsOnSamePage ==
    /\ geom.fn = "none"
    /\ LET panics == overflow_checks /\ is_on_same_page_overflows(geom.off_a, geom.size_a)
       IN  geom' = [geom EXCEPT
                      !.fn = "is_on_same_page",
                      !.panicked = panics,
                      !.same_page = IF panics THEN FALSE
                                    ELSE is_on_same_page(geom.off_a, geom.size_a,
                                                         geom.off_b, geom.page)]
    /\ UNCHANGED <<overflow_checks, type_vars, block_vars, linear_vars, general_vars>>

CallAlignUp ==
    /\ geom.fn = "none"
    /\ LET panics == overflow_checks /\ align_up_overflows(geom.off_a, geom.page)
       IN  geom' = [geom EXCEPT
                      !.fn = "align_up",
                      !.panicked = panics,
                      !.aligned = IF panics THEN 0 ELSE align_up(geom.off_a, geom.page)]
    /\ UNCHANGED <<overflow_checks, type_vars, block_vars, linear_vars, general_vars>>

CallAlignDown ==
    /\ geom.fn = "none"
    /\ LET panics == overflow_checks /\ align_down_overflows(geom.off_a, geom.page)
       IN  geom' = [geom EXCEPT
                      !.fn = "align_down",
                      !.panicked = panics,
                      !.aligned = IF panics THEN 0 ELSE align_down(geom.off_a, geom.page)]
    /\ UNCHANGED <<overflow_checks, type_vars, block_vars, linear_vars, general_vars>>

(***************************************************************************)
(* Memory-type selection (src/lib.rs 208-271)                              *)
(***************************************************************************)
MemoryPropertyFlags == {"DEVICE_LOCAL", "HOST_VISIBLE", "HOST_COHERENT", "HOST_CACHED"}

MemoryLocation == {"CpuToGpu", "GpuOnly", "GpuToCpu"}

MaxTypes == 2

\* vk::MemoryPropertyFlags::contains: every bit of other is set in flags.
contains(flags, other) == other \subseteq flags

memory_type_is_compatible_IgnoresMask(memory_type_index, memory_type_bits) == TRUE

memory_type_is_compatible(memory_type_index, memory_type_bits) ==
    BitAnd(2 ^ memory_type_index, memory_type_bits) # 0

None == [some |-> FALSE, index |-> 0]

Some(i) == [some |-> TRUE, index |-> i]

\* The iterator of query_memory_type_index from position index on: the first
\* entry of memory_types[..memory_type_count] the closure accepts.
RECURSIVE find_from(_, _, _, _)
find_from(memory_properties, memory_type_bits, memory_property_flags, index) ==
    IF index >= memory_properties.memory_type_count THEN None
    ELSE IF /\ memory_type_is_compatible(index, memory_type_bits)
            /\ contains(memory_properties.memory_types[index + 1].property_flags,
                        memory_property_flags)
         THEN Some(index)
         ELSE find_from(memory_properties, memory_type_bits, memory_property_flags, index + 1)

RECURSIVE find_last_from(_, _, _, _)
find_last_from(memory_properties, memory_type_bits, memory_property_flags, index) ==
    IF index >= memory_properties.memory_type_count THEN None
    ELSE LET later == find_last_from(memory_properties, memory_type_bits,
                                     memory_property_flags, index + 1)
         IN  IF later.some THEN later
             ELSE IF /\ memory_type_is_compatible(index, memory_type_bits)
                     /\ contains(memory_properties.memory_types[index + 1].property_flags,
                                 memory_property_flags)
                  THEN Some(index)
                  ELSE None

query_memory_type_index_Last(memory_properties, memory_type_bits, memory_property_flags) ==
    find_last_from(memory_properties, memory_type_bits, memory_property_flags, 0)

query_memory_type_index(memory_properties, memory_type_bits, memory_property_flags) ==
    find_from(memory_properties, memory_type_bits, memory_property_flags, 0)

\* The first match of find_memory_type_index: the fast-path flags.
preferred_flags(location) ==
    CASE location = "GpuOnly" -> {"DEVICE_LOCAL"}
      [] location = "CpuToGpu" -> {"HOST_VISIBLE", "HOST_COHERENT", "DEVICE_LOCAL"}
      [] location = "GpuToCpu" -> {"HOST_VISIBLE", "HOST_COHERENT", "HOST_CACHED"}

\* The second match of find_memory_type_index: the flags after losing requirements.
relaxed_flags(location) ==
    CASE location = "GpuOnly" -> {"DEVICE_LOCAL"}
      [] location = "CpuToGpu" -> {"HOST_VISIBLE", "HOST_COHERENT"}
      [] location = "GpuToCpu" -> {"HOST_VISIBLE", "HOST_COHERENT"}

Ok(x) == [ok |-> TRUE, index |-> x, err |-> "none"]

Err(e) == [ok |-> FALSE, index |-> 0, err |-> e]

find_memory_type_index(memory_properties, location, memory_type_bits) ==
    LET first == query_memory_type_index(memory_properties, memory_type_bits,
                                         preferred_flags(location))
        memory_type_index_optional ==
            IF ~first.some
            THEN query_memory_type_index(memory_properties, memory_type_bits,
                                         relaxed_flags(location))
            ELSE first
    IN  IF memory_type_index_optional.some
        THEN Ok(memory_type_index_optional.index)
        ELSE Err("NoCompatibleMemoryTypeFound")

\* Every table of MaxTypes memory types, of which the first memory_type_count are valid.
MemoryPropertiesTables ==
    [memory_type_count : 0 .. MaxTypes,
     memory_types : [1 .. MaxTypes -> [property_flags : SUBSET MemoryPropertyFlags]]]

MemoryTypeBits == 0 .. (2 ^ MaxTypes - 1)

NoMemoryProperties ==
    [memory_type_count |-> 0,
     memory_types |-> [i \in 1 .. MaxTypes |-> [property_flags |-> {}]]]

NoTypeCall == [called |-> FALSE, location |-> "GpuOnly", memory_type_bits |-> 0,
               result |-> Err("none")]

CallFindMemoryTypeIndex ==
    /\ ~mt_call.called
    /\ \E location \in MemoryLocation, memory_type_bits \in MemoryTypeBits :
        /\ mt_call' = [called |-> TRUE, location |-> location,
                    memory_type_bits |-> memory_type_bits,
                       result |-> find_memory_type_index(mt_props, location, memory_type_bits)]
        /\ UNCHANGED <<mt_props, geom_vars, block_vars, linear_vars, general_vars>>

(***************************************************************************)
(* MemoryBlock (src/lib.rs 140-206) over a device that may refuse to       *)
(* allocate or to map                                                      *)
(***************************************************************************)
CargoFeatures == {"tracing", "profiling", "vk-buffer-device-address"}

\* The configuration predicates rustc sees: cargo passes one feature="name"
\* pair for each enabled feature.
cfg_options == {<<"feature", f>> : f \in cargo_features}

\* cfg!(key = "value")
cfg(key, value) == <<key, value>> \in cfg_options

MaxHandles == 3

BlockSizes == {1, 2}

NullPtr == 0

\* The host addresses a successful map_memory may return.
HostPtrs == {1, 2}

DeviceCall(fn, memory, ok) ==
    [fn |-> fn, memory |-> memory, ok |-> ok,
     size |-> 0, memory_type_index |-> 0, device_address |-> FALSE]

\* The vk::MemoryAllocateInfo built at the top of MemoryBlock::new, as the
\* device sees it, and the device's answer.
allocate_memory(size, memory_type_index, memory, ok) ==
    [fn |-> "allocate_memory", memory |-> memory, ok |-> ok,
     size |-> size, memory_type_index |-> memory_type_index,
     device_address |-> cfg("features", "vk-buffer-device-address")]

map_err_NoFree(device_memory) == << >>

\* The closure of map_err in MemoryBlock::new.
map_err(device_memory) == << DeviceCall("free_memory", device_memory, TRUE) >>

\* The device calls MemoryBlock::new issues, in order: alloc_ok and map_ok are
\* the device's answers, memory the handle it hands out.
MemoryBlock_new_calls(size, memory_type_index, is_mappable, memory, alloc_ok, map_ok) ==
    IF ~alloc_ok
    THEN << allocate_memory(size, memory_type_index, 0, FALSE) >>
    ELSE << allocate_memory(size, memory_type_index, memory, TRUE) >>
         \o (IF is_mappable
             THEN << DeviceCall("map_memory", memory, map_ok) >>
                  \o (IF map_ok THEN << >> ELSE map_err(memory))
             ELSE << >>)

MemoryBlock_new_result(is_mappable, alloc_ok, map_ok) ==
    IF ~alloc_ok THEN "OutOfMemory"
    ELSE IF is_mappable /\ ~map_ok THEN "FailedToMap"
    ELSE "Ok"

MemoryBlock_destroy_NoUnmap(block) ==
    << DeviceCall("free_memory", block.device_memory, TRUE) >>

MemoryBlock_destroy_calls(block) ==
    (IF block.mapped_ptr # NullPtr
     THEN << DeviceCall("unmap_memory", block.device_memory, TRUE) >>
     ELSE << >>)
    \o << DeviceCall("free_memory", block.device_memory, TRUE) >>

\* The device after one call: what it holds allocated and what it holds mapped.
DeviceAfter(state, call) ==
    IF ~call.ok THEN state
    ELSE CASE call.fn = "allocate_memory" ->
                [state EXCEPT !.live = @ \cup {call.memory}]
           [] call.fn = "map_memory" ->
                [state EXCEPT !.mapped = @ \cup {call.memory}]
           [] call.fn = "unmap_memory" ->
                [state EXCEPT !.mapped = @ \ {call.memory}]
           [] call.fn = "free_memory" ->
                [state EXCEPT !.live = @ \ {call.memory}, !.mapped = @ \ {call.memory}]

RECURSIVE DeviceAfterAll(_, _)
DeviceAfterAll(state, calls) ==
    IF calls = << >> THEN state
    ELSE DeviceAfterAll(DeviceAfter(state, Head(calls)), Tail(calls))

NoBlockCall ==
    [op |-> "none", size |-> 0, memory_type_index |-> 0, is_mappable |-> FALSE,
     device_memory |-> 0, result |-> "none", calls |-> << >>,
     live_before |-> {}, mapped_before |-> {}]

MemoryBlockNew ==
    \E size \in BlockSizes, memory_type_index \in 0 .. (MaxTypes - 1),
       is_mappable \in BOOLEAN, alloc_ok \in BOOLEAN, map_ok \in BOOLEAN,
       ptr \in HostPtrs :
        /\ dev_next <= MaxHandles
        /\ LET calls == MemoryBlock_new_calls(size, memory_type_index, is_mappable,
                                              dev_next, alloc_ok, map_ok)
               result == MemoryBlock_new_result(is_mappable, alloc_ok, map_ok)
               after == DeviceAfterAll([live |-> dev_live, mapped |-> dev_mapped], calls)
           IN  /\ dev_live' = after.live
               /\ dev_mapped' = after.mapped
               /\ dev_next' = IF alloc_ok THEN dev_next + 1 ELSE dev_next
               /\ blocks' = IF result = "Ok"
                            THEN blocks \cup {[device_memory |-> dev_next, size |-> size,
                                               mapped_ptr |-> IF is_mappable THEN ptr
                                                              ELSE NullPtr]}
                            ELSE blocks
               /\ block_call' = [op |-> "new", size |-> size,
                                 memory_type_index |-> memory_type_index,
                                 is_mappable |-> is_mappable,
                                 device_memory |-> IF alloc_ok THEN dev_next ELSE 0,
                                 result |-> result, calls |-> calls,
                                 live_before |-> dev_live, mapped_before |-> dev_mapped]
               /\ UNCHANGED <<cargo_features, geom_vars, type_vars, linear_vars, general_vars>>

MemoryBlockDestroy ==
    \E block \in blocks :
        LET calls == MemoryBlock_destroy_calls(block)
            after == DeviceAfterAll([live |-> dev_live, mapped |-> dev_mapped], calls)
        IN  /\ dev_live' = after.live
            /\ dev_mapped' = after.mapped
            /\ dev_next' = dev_next
            /\ blocks' = blocks \ {block}
            /\ block_call' = [op |-> "destroy", size |-> block.size,
                              memory_type_index |-> 0,
                              is_mappable |-> block.mapped_ptr # NullPtr,
                              device_memory |-> block.device_memory,
                              result |-> "Ok", calls |-> calls,
                              live_before |-> dev_live, mapped_before |-> dev_mapped]
            /\ UNCHANGED <<cargo_features, geom_vars, type_vars, linear_vars, general_vars>>

(***************************************************************************)
(* Requests to the sub-allocators and the device limits they run under     *)
(***************************************************************************)
PageBits == 1

\* The device's buffer/image granularity: a power of two.
buffer_image_granularity == 2 ^ PageBits

MaxRequestSize == 3

\* Request sizes, 0 included (refused as invalid-size).
RequestSizes == 0 .. MaxRequestSize

\* Request alignments: the powers of two up to twice the granularity, and 0
\* and 3 (refused as invalid-alignment).
RequestAlignments == {2 ^ k : k \in 0 .. (PageBits + 1)} \cup {0, 3}

is_power_of_two(x) == x > 0 /\ BitAnd(x, x - 1) = 0

\* The request checks of the error design: invalid-size and invalid-alignment.
validate_request(size, alignment) ==
    IF size = 0 THEN "InvalidSize"
    ELSE IF ~is_power_of_two(alignment) THEN "InvalidAlignment"
    ELSE "Ok"

(***************************************************************************)
(* Linear allocator (module linear_allocator, design section 4.4)          *)
(***************************************************************************)
LinearBlockPages == 3

\* block_size of the LinearAllocatorDescriptor.
linear_block_size == LinearBlockPages * buffer_image_granularity

\* The state after construction: cursor 0 and no previous allocation.
LinearAllocator_new ==
    [cursor |-> 0, has_previous |-> FALSE, previous_end |-> 0, previous_is_linear |-> FALSE]

LinearFailure(e) == [ok |-> FALSE, err |-> e, offset |-> 0, size |-> 0]

\* allocate(size, alignment, allocation_type): the allocator afterwards and
\* the handle or error returned.
LinearAllocator_allocate(self, size, alignment, allocation_type) ==
    IF validate_request(size, alignment) # "Ok"
    THEN [self |-> self, result |-> LinearFailure(validate_request(size, alignment))]
    ELSE
    LET new_is_linear == is_linear(allocation_type)
        first == align_up(self.cursor, alignment)
        aligned_offset ==
            IF /\ self.has_previous
               /\ has_granularity_conflict(self.previous_is_linear, new_is_linear)
               /\ is_on_same_page(self.previous_end - 1, 1, first, buffer_image_granularity)
            THEN align_up(align_up(self.previous_end, buffer_image_granularity), alignment)
            ELSE first
    IN  IF aligned_offset + size > linear_block_size
        THEN [self |-> self, result |-> LinearFailure("OutOfMemory")]
        ELSE [self |-> [cursor |-> aligned_offset + size,
                        has_previous |-> TRUE,
                        previous_end |-> aligned_offset + size,
                        previous_is_linear |-> new_is_linear],
              result |-> [ok |-> TRUE, err |-> "none",
                          offset |-> aligned_offset, size |-> size]]

LinearAllocator_free_all_KeepsPrevious(self) == [self EXCEPT !.cursor = 0]

\* free_all(): reset the cursor and forget the previous allocation.
LinearAllocator_free_all(self) ==
    [cursor |-> 0, has_previous |-> FALSE, previous_end |-> 0, previous_is_linear |-> FALSE]

MaxReplay == 3

LinearRunStart ==
    [last_op |-> "new", replaying |-> FALSE, freed |-> 0, log |-> << >>, ref_log |-> << >>]

\* allocate on the allocator; once free_all has been called, the same request
\* also goes to a freshly constructed allocator and both outcomes are logged.
LinearAllocate ==
    \E size \in RequestSizes, alignment \in RequestAlignments,
       allocation_type \in AllocationType :
        LET r == LinearAllocator_allocate(lin, size, alignment, allocation_type)
            f == LinearAllocator_allocate(lin_ref, size, alignment, allocation_type)
        IN  /\ lin_run.replaying => Len(lin_run.log) < MaxReplay
            /\ lin' = r.self
            /\ lin_ref' = IF lin_run.replaying THEN f.self ELSE lin_ref
            /\ lin_run' = [lin_run EXCEPT
                              !.last_op = "allocate",
                              !.log = IF lin_run.replaying THEN Append(@, r.result) ELSE @,
                              !.ref_log = IF lin_run.replaying THEN Append(@, f.result) ELSE @]
            /\ UNCHANGED <<geom_vars, type_vars, block_vars, general_vars>>

LinearFreeAll ==
    /\ lin' = LinearAllocator_free_all(lin)
    /\ lin_ref' = LinearAllocator_new
    /\ lin_run' = [last_op |-> "free_all", replaying |-> TRUE, freed |-> lin.cursor,
                   log |-> << >>, ref_log |-> << >>]
    /\ UNCHANGED <<geom_vars, type_vars, block_vars, general_vars>>

(***************************************************************************)
(* General allocator (module general_allocator, design section 4.5)        *)
(***************************************************************************)
\* default_block_size of the GeneralAllocatorDescriptor.
default_block_size == 4

\* max_blocks_per_type of the GeneralAllocatorDescriptor.
max_blocks_per_type == 2

\* The most handles the client holds at once.
MaxLive == 3

\* The device the general allocator runs on: a unified-memory device with one
\* memory type, device-local, host-visible and host-coherent.
general_memory_properties ==
    [memory_type_count |-> 1,
     memory_types |-> << [property_flags |->
                             {"DEVICE_LOCAL", "HOST_VISIBLE", "HOST_COHERENT"}] >>]

GeneralRequest(size, alignment, memory_type_bits, location, allocation_type) ==
    [size |-> size, alignment |-> alignment, memory_type_bits |-> memory_type_bits,
     location |-> location, allocation_type |-> allocation_type]

\* The allocation descriptors of the requests: every valid size, alignment and
\* allocation type for a device-local resource; a download resource, which
\* falls back to the type without HOST_CACHED; an upload resource the mask
\* permits no valid type for; and a zero size and two alignments that are not
\* powers of two.
GeneralRequests ==
    {GeneralRequest(size, alignment, 1, "GpuOnly", allocation_type) :
        size \in RequestSizes \ {0},
        alignment \in {a \in RequestAlignments : is_power_of_two(a)},
        allocation_type \in AllocationType}
    \cup {GeneralRequest(1, 1, 1, "GpuToCpu", "Buffer"),
          GeneralRequest(1, 1, 2, "CpuToGpu", "Buffer"),
          GeneralRequest(0, 1, 1, "GpuOnly", "Buffer")}
    \cup {GeneralRequest(1, alignment, 1, "GpuOnly", "Buffer") :
             alignment \in {a \in RequestAlignments : ~is_power_of_two(a)}}

\* What the device answers when asked for a block: <<alloc_ok, map_ok>>.
DeviceAnswers == { <<TRUE, TRUE>>, <<FALSE, TRUE>>, <<TRUE, FALSE>> }

GeneralTypeIndices == 0 .. (general_memory_properties.memory_type_count - 1)

\* Blocks of a memory type are mapped at creation iff the type is host-visible.
pool_is_mappable(memory_type_index) ==
    "HOST_VISIBLE" \in
        general_memory_properties.memory_types[memory_type_index + 1].property_flags

FreeChunk(offset, size) ==
    [offset |-> offset, size |-> size, is_free |-> TRUE, allocation_type |-> "None"]

OccupiedChunk(offset, size, allocation_type) ==
    [offset |-> offset, size |-> size, is_free |-> FALSE,
     allocation_type |-> allocation_type]

\* A new block: one free chunk spanning it.
GeneralBlock(size, mapped) ==
    [size |-> size, mapped |-> mapped, chunks |-> << FreeChunk(0, size) >>]

\* The state after construction: every pool empty.
GeneralAllocator_new == [t \in GeneralTypeIndices |-> << >>]

ChunkEnd(chunk) == chunk.offset + chunk.size

\* The size-indexed view over the free chunks of a block: the positions in the
\* chunk list of the free chunks of at least the given size.
free_index(block, size) ==
    {i \in DOMAIN block.chunks : block.chunks[i].is_free /\ block.chunks[i].size >= size}

\* The effective placement of a request in the free chunk at position i.
placement(chunks, i, size, alignment, allocation_type) ==
    LET chunk == chunks[i]
        new_is_linear == is_linear(allocation_type)
        first == align_up(chunk.offset, alignment)
        start ==
            IF /\ i > 1
               /\ has_granularity_conflict(is_linear(chunks[i - 1].allocation_type),
                                           new_is_linear)
               /\ is_on_same_page(ChunkEnd(chunks[i - 1]) - 1, 1, first,
                                  buffer_image_granularity)
            THEN align_up(align_up(ChunkEnd(chunks[i - 1]), buffer_image_granularity),
                          alignment)
            ELSE first
        next_conflicts ==
            /\ i < Len(chunks)
            /\ ~chunks[i + 1].is_free
            /\ has_granularity_conflict(new_is_linear,
                                        is_linear(chunks[i + 1].allocation_type))
            /\ is_on_same_page(start, size, chunks[i + 1].offset, buffer_image_granularity)
    IN  [start |-> start,
         feasible |-> ~next_conflicts /\ start + size <= ChunkEnd(chunk)]

\* The feasible (block, chunk, start) triples of a pool, with their waste.
feasible_placements(pool, size, alignment, allocation_type) ==
    LET candidates ==
            UNION {{[block |-> b, chunk |-> i, waste |-> pool[b].chunks[i].size - size,
                     at |-> placement(pool[b].chunks, i, size, alignment, allocation_type)] :
                        i \in free_index(pool[b], size)} : b \in DOMAIN pool}
    IN  {[block |-> c.block, chunk |-> c.chunk, start |-> c.at.start, waste |-> c.waste] :
            c \in {c \in candidates : c.at.feasible}}

\* Best fit: least waste, then lowest block index, then lowest chunk offset.
better(p, q) ==
    \/ p.waste < q.waste
    \/ p.waste = q.waste /\ p.block < q.block
    \/ p.waste = q.waste /\ p.block = q.block /\ p.chunk <= q.chunk

best_fit(placements) == CHOOSE p \in placements : \A q \in placements : better(p, q)

\* Split the chunk at position i around [start, start + size).
split(chunks, i, start, size, allocation_type) ==
    LET chunk == chunks[i]
    IN  SubSeq(chunks, 1, i - 1)
        \o (IF start > chunk.offset
            THEN << FreeChunk(chunk.offset, start - chunk.offset) >>
            ELSE << >>)
        \o << OccupiedChunk(start, size, allocation_type) >>
        \o (IF start + size < ChunkEnd(chunk)
            THEN << FreeChunk(start + size, ChunkEnd(chunk) - (start + size)) >>
            ELSE << >>)
        \o SubSeq(chunks, i + 1, Len(chunks))

\* The size of a block created for a request: the default, or the request
\* rounded up to a page when that is larger.
new_block_size(size) ==
    LET rounded == align_up(size, buffer_image_granularity)
    IN  IF rounded > default_block_size THEN rounded ELSE default_block_size

GeneralFailure(e) ==
    [ok |-> FALSE, err |-> e, memory_type_index |-> 0, block |-> 0, offset |-> 0,
     size |-> 0, mapped |-> FALSE]

\* allocate(descriptor): the pools afterwards and the handle or error
\* returned; alloc_ok and map_ok are the device's answers should a block be
\* created.
GeneralAllocator_allocate(self, size, alignment, memory_type_bits, location, allocation_type, alloc_ok, map_ok) ==
    LET valid == validate_request(size, alignment)
        found == find_memory_type_index(general_memory_properties, location,
                                        memory_type_bits)
    IN
    IF valid # "Ok" THEN [self |-> self, result |-> GeneralFailure(valid)]
    ELSE IF ~found.ok THEN [self |-> self, result |-> GeneralFailure(found.err)]
    ELSE
    LET t == found.index
        pool == self[t]
        placements == feasible_placements(pool, size, alignment, allocation_type)
        created == MemoryBlock_new_result(pool_is_mappable(t), alloc_ok, map_ok)
        grown == Append(pool, GeneralBlock(new_block_size(size), pool_is_mappable(t)))
        place(in_pool, p) ==
            [self |-> [self EXCEPT ![t] =
                          [in_pool EXCEPT ![p.block].chunks =
                              split(@, p.chunk, p.start, size, allocation_type)]],
             result |-> [ok |-> TRUE, err |-> "none", memory_type_index |-> t,
                         block |-> p.block, offset |-> p.start, size |-> size,
                         mapped |-> in_pool[p.block].mapped]]
    IN  IF placements # {} THEN place(pool, best_fit(placements))
        ELSE IF Len(pool) >= max_blocks_per_type
             THEN [self |-> self, result |-> GeneralFailure("OutOfMemory")]
        ELSE IF created # "Ok"
             THEN [self |-> self, result |-> GeneralFailure(created)]
        ELSE place(grown, best_fit(feasible_placements(grown, size, alignment,
                                                       allocation_type)))

\* The position in the chunk list of the chunk a handle names.
chunk_of(chunks, handle) ==
    CHOOSE i \in DOMAIN chunks : chunks[i].offset = handle.offset

coalesce_with_previous_Never(chunks, i) == chunks

coalesce_with_previous(chunks, i) ==
    IF i > 1 /\ chunks[i - 1].is_free
    THEN SubSeq(chunks, 1, i - 2)
         \o << FreeChunk(chunks[i - 1].offset, chunks[i - 1].size + chunks[i].size) >>
         \o SubSeq(chunks, i + 1, Len(chunks))
    ELSE chunks

coalesce_with_next(chunks, i) ==
    IF i < Len(chunks) /\ chunks[i + 1].is_free
    THEN SubSeq(chunks, 1, i - 1)
         \o << FreeChunk(chunks[i].offset, chunks[i].size + chunks[i + 1].size) >>
         \o SubSeq(chunks, i + 2, Len(chunks))
    ELSE chunks

\* free(handle): mark the chunk free, then coalesce it with its free neighbours.
GeneralAllocator_free(self, handle) ==
    LET chunks == self[handle.memory_type_index][handle.block].chunks
        i == chunk_of(chunks, handle)
        marked == [chunks EXCEPT ![i] = FreeChunk(chunks[i].offset, chunks[i].size)]
        with_previous == coalesce_with_previous(marked, i)
        j == IF Len(with_previous) < Len(marked) THEN i - 1 ELSE i
    IN  [self EXCEPT ![handle.memory_type_index][handle.block].chunks =
            coalesce_with_next(with_previous, j)]

AllBlocks(self) == {<<t, b>> \in GeneralTypeIndices \X (1 .. max_blocks_per_type) : b <= Len(self[t])}

RECURSIVE SumOver(_, _)
SumOver(f, S) ==
    IF S = {} THEN 0
    ELSE LET x == CHOOSE y \in S : TRUE IN f[x] + SumOver(f, S \ {x})

OccupiedBytes(block) ==
    SumOver([i \in DOMAIN block.chunks |->
                IF block.chunks[i].is_free THEN 0 ELSE block.chunks[i].size],
            DOMAIN block.chunks)

\* AllocatorInfo of the general allocator.
allocated(self) ==
    SumOver([tb \in AllBlocks(self) |-> OccupiedBytes(self[tb[1]][tb[2]])], AllBlocks(self))

reserved_size(self) ==
    SumOver([tb \in AllBlocks(self) |-> self[tb[1]][tb[2]].size], AllBlocks(self))

reserved_blocks(self) ==
    SumOver([t \in GeneralTypeIndices |-> Len(self[t])], GeneralTypeIndices)

NoGeneralCall == [op |-> "new", ok |-> TRUE]

GeneralAllocate ==
    \E d \in GeneralRequests :
        \E granted \in {GeneralAllocator_allocate(gen, d.size, d.alignment,
                                                   d.memory_type_bits, d.location,
                                                   d.allocation_type, TRUE, TRUE)} :
            \E answer \in DeviceAnswers :
                \* the device is asked only when a block is created
                /\ answer = <<TRUE, TRUE>> \/ reserved_blocks(granted.self) > reserved_blocks(gen)
                /\ \E r \in {IF answer = <<TRUE, TRUE>> THEN granted
                              ELSE GeneralAllocator_allocate(gen, d.size, d.alignment,
                                                             d.memory_type_bits, d.location,
                                                             d.allocation_type,
                                                             answer[1], answer[2])} :
                       \* the client holds at most MaxLive handles
                       /\ r.result.ok => Cardinality(gen_handles) < MaxLive
                       /\ gen' = r.self
                       /\ gen_handles' = IF r.result.ok THEN gen_handles \cup {r.result}
                                         ELSE gen_handles
                       /\ gen_call' = [op |-> "allocate", ok |-> r.result.ok]
                       /\ UNCHANGED <<geom_vars, type_vars, block_vars, linear_vars>>

GeneralFree ==
    \E handle \in gen_handles :
        /\ gen' = GeneralAllocator_free(gen, handle)
        /\ gen_handles' = gen_handles \ {handle}
        /\ gen_call' = [op |-> "free", ok |-> TRUE]
        /\ UNCHANGED <<geom_vars, type_vars, block_vars, linear_vars>>

(***************************************************************************)
(* Specifications                                                          *)
(***************************************************************************)
GeomIdleInit ==
    /\ overflow_checks = FALSE
    /\ geom = GeomIdle(0, 0, 0, 1)

TypeIdleInit ==
    /\ mt_props = NoMemoryProperties
    /\ mt_call = NoTypeCall

BlockIdleInit ==
    /\ cargo_features = {}
    /\ dev_live = {}
    /\ dev_mapped = {}
    /\ dev_next = 1
    /\ blocks = {}
    /\ block_call = NoBlockCall

LinearIdleInit ==
    /\ lin = LinearAllocator_new
    /\ lin_ref = LinearAllocator_new
    /\ lin_run = LinearRunStart

GeneralIdleInit ==
    /\ gen = GeneralAllocator_new
    /\ gen_handles = {}
    /\ gen_call = NoGeneralCall

\* The geometry helpers, each called once on every input of GeomValues.
InitGeom ==
    /\ overflow_checks \in BOOLEAN
    /\ geom \in {GeomIdle(a, s, b, p) : a \in GeomValues, s \in GeomValues,
                                        b \in GeomValues, p \in PowersOfTwo}
    /\ TypeIdleInit /\ BlockIdleInit /\ LinearIdleInit /\ GeneralIdleInit

NextGeom == CallIsOnSamePage \/ CallAlignUp \/ CallAlignDown

SpecGeom == InitGeom /\ [][NextGeom]_vars

\* find_memory_type_index called on every memory-type table.
InitTypes ==
    /\ mt_props \in MemoryPropertiesTables
    /\ mt_call = NoTypeCall
    /\ GeomIdleInit /\ BlockIdleInit /\ LinearIdleInit /\ GeneralIdleInit

NextTypes == CallFindMemoryTypeIndex

SpecTypes == InitTypes /\ [][NextTypes]_vars

\* MemoryBlock values created and destroyed on a device, under every feature set.
InitBlocks ==
    /\ cargo_features \in SUBSET CargoFeatures
    /\ dev_live = {}
    /\ dev_mapped = {}
    /\ dev_next = 1
    /\ blocks = {}
    /\ block_call = NoBlockCall
    /\ GeomIdleInit /\ TypeIdleInit /\ LinearIdleInit /\ GeneralIdleInit

NextBlocks == MemoryBlockNew \/ MemoryBlockDestroy

SpecBlocks == InitBlocks /\ [][NextBlocks]_vars

\* A linear allocator after construction, under allocate and free_all.
InitLinear ==
    /\ LinearIdleInit
    /\ GeomIdleInit /\ TypeIdleInit /\ BlockIdleInit /\ GeneralIdleInit

NextLinear == LinearAllocate \/ LinearFreeAll

SpecLinear == InitLinear /\ [][NextLinear]_vars

\* A general allocator after construction, under allocate and free.
InitGeneral ==
    /\ GeneralIdleInit
    /\ GeomIdleInit /\ TypeIdleInit /\ BlockIdleInit /\ LinearIdleInit

NextGeneral == GeneralAllocate \/ GeneralFree

SpecGeneral == InitGeneral /\ [][NextGeneral]_vars

(***************************************************************************)
(* Properties of the memory-type selection                                 *)
(***************************************************************************)
Min(S) == CHOOSE x \in S : \A y \in S : x <= y

BitSet(mask, i) == (mask \div (2 ^ i)) % 2 = 1

\* The indices below memory_type_count that the mask of the last call permits
\* and whose flags contain the given set.
PermittedWith(flags) ==
    {i \in 0 .. (mt_props.memory_type_count - 1) :
        /\ BitSet(mt_call.memory_type_bits, i)
        /\ flags \subseteq mt_props.memory_types[i + 1].property_flags}

ClaimedPreferred ==
    CASE mt_call.location = "GpuOnly" -> {"DEVICE_LOCAL"}
      [] mt_call.location = "CpuToGpu" -> {"HOST_VISIBLE", "HOST_COHERENT", "DEVICE_LOCAL"}
      [] mt_call.location = "GpuToCpu" -> {"HOST_VISIBLE", "HOST_COHERENT", "HOST_CACHED"}

ClaimedRelaxed ==
    CASE mt_call.location = "GpuOnly" -> {"DEVICE_LOCAL"}
      [] mt_call.location = "CpuToGpu" -> {"HOST_VISIBLE", "HOST_COHERENT"}
      [] mt_call.location = "GpuToCpu" -> {"HOST_VISIBLE", "HOST_COHERENT"}

\* C1: find_memory_type_index returns the lowest permitted index whose flags
\* contain the preferred set of the location whenever one exists, even below a
\* lower index that satisfies only the relaxed set; only when none exists does
\* it return the lowest permitted index whose flags contain the relaxed set.
C1_PreferredBeforeRelaxed ==
    mt_call.called =>
        LET P == PermittedWith(ClaimedPreferred)
            R == PermittedWith(ClaimedRelaxed)
        IN  /\ P # {} => (mt_call.result.ok /\ mt_call.result.index = Min(P))
            /\ (P = {} /\ R # {}) => (mt_call.result.ok /\ mt_call.result.index = Min(R))

\* A call where a lower index satisfies only the relaxed set and the higher,
\* preferred one is returned.
C1_Witness ==
    /\ mt_call.called
    /\ LET P == PermittedWith(ClaimedPreferred)
           R == PermittedWith(ClaimedRelaxed)
       IN  /\ P # {}
           /\ \E i \in R \ P : i < Min(P)
           /\ mt_call.result.ok
           /\ mt_call.result.index = Min(P)

\* C7: find_memory_type_index fails with NoCompatibleMemoryTypeFound exactly
\* when no index below memory_type_count is permitted by the mask with flags
\* containing the relaxed set; otherwise it succeeds with an index below
\* memory_type_count whose mask bit is set, and GpuOnly always gets a
\* device-local type.
C7_FailsExactlyWithoutRelaxedType ==
    mt_call.called =>
        LET R == PermittedWith(ClaimedRelaxed)
            r == mt_call.result
        IN  /\ ~r.ok <=> R = {}
            /\ ~r.ok => r.err = "NoCompatibleMemoryTypeFound"
            /\ r.ok => /\ r.index < mt_props.memory_type_count
                       /\ BitSet(mt_call.memory_type_bits, r.index)
            /\ (r.ok /\ mt_call.location = "GpuOnly") =>
                   "DEVICE_LOCAL" \in mt_props.memory_types[r.index + 1].property_flags

\* A failed GpuOnly call although the mask permits a valid memory type: the
\* type is just not device-local.
C7_Witness ==
    /\ mt_call.called
    /\ ~mt_call.result.ok
    /\ mt_call.location = "GpuOnly"
    /\ \E i \in 0 .. (mt_props.memory_type_count - 1) :
           /\ BitSet(mt_call.memory_type_bits, i)
           /\ mt_props.memory_types[i + 1].property_flags # {}

(***************************************************************************)
(* Properties of MemoryBlock::new                                          *)
(***************************************************************************)
CallsOf(fn) == {i \in DOMAIN block_call.calls : block_call.calls[i].fn = fn}

\* C6: a failed MemoryBlock::new leaves nothing behind.  When the device
\* allocation fails the result is OutOfMemory and neither map nor free is
\* called; when the map of a mappable block fails, the memory just allocated
\* is freed exactly once and FailedToMap is returned.  After either failure
\* the device holds what it held before the call.
C6_FailedCreateLeavesNothing ==
    block_call.op = "new" =>
        LET calls == block_call.calls
            h == block_call.device_memory
        IN  /\ ~calls[1].ok <=> block_call.result = "OutOfMemory"
            /\ block_call.result = "OutOfMemory" =>
                   /\ CallsOf("map_memory") = {}
                   /\ CallsOf("free_memory") = {}
            /\ (\E i \in CallsOf("map_memory") : ~calls[i].ok)
                   <=> block_call.result = "FailedToMap"
            /\ block_call.result = "FailedToMap" =>
                   /\ block_call.is_mappable
                   /\ Cardinality(CallsOf("free_memory")) = 1
                   /\ \A i \in CallsOf("free_memory") :
                          /\ calls[i].memory = h
                          /\ \A j \in CallsOf("map_memory") : j < i
                   /\ h \notin dev_live
                   /\ h \notin dev_mapped
            /\ block_call.result # "Ok" =>
                   /\ dev_live = block_call.live_before
                   /\ dev_mapped = block_call.mapped_before
                   /\ \A b \in blocks : b.device_memory # h

\* A create that failed to map while the device already held other memory.
C6_Witness ==
    /\ block_call.op = "new"
    /\ block_call.result = "FailedToMap"
    /\ block_call.live_before # {}
    /\ dev_live = block_call.live_before

\* C8: the allocation requests of MemoryBlock::new carry the device-address
\* flag exactly when the client enabled vk-buffer-device-address.
C8_DeviceAddressFollowsFeature ==
    block_call.op = "new" =>
        \A i \in CallsOf("allocate_memory") :
            block_call.calls[i].device_address
                <=> "vk-buffer-device-address" \in cargo_features

\* C11: a created block has a null host pointer exactly when it was created
\* non-mappable; every block held is live on the device, and mapped there
\* exactly when its pointer is not null; destroy unmaps exactly when the
\* block was mapped, before it frees, frees exactly once, and leaves the
\* device with neither the memory nor a mapping of it.
C11_CreateDestroyLifecycle ==
    /\ \A block \in blocks :
        /\ block.device_memory \in dev_live
        /\ block.mapped_ptr # NullPtr <=> block.device_memory \in dev_mapped
    /\ (block_call.op = "new" /\ block_call.result = "Ok") =>
        \E block \in blocks :
            /\ block.device_memory = block_call.device_memory
            /\ block.device_memory \notin block_call.live_before
            /\ block.mapped_ptr = NullPtr <=> ~block_call.is_mappable
    /\ block_call.op = "destroy" =>
        LET memory == block_call.device_memory
            was_mapped == memory \in block_call.mapped_before
            unmaps == CallsOf("unmap_memory")
            frees == CallsOf("free_memory")
        IN  /\ memory \in block_call.live_before
            /\ \A i \in DOMAIN block_call.calls : block_call.calls[i].memory = memory
            /\ Cardinality(frees) = 1
            /\ Cardinality(unmaps) = (IF was_mapped THEN 1 ELSE 0)
            /\ \A u \in unmaps : \A f \in frees : u < f
            /\ DOMAIN block_call.calls = unmaps \cup frees
            /\ memory \notin dev_live
            /\ memory \notin dev_mapped
            /\ \A block \in blocks : block.device_memory # memory

\* A mapped block destroyed by unmap then free while another block stays.
C11_Witness ==
    /\ block_call.op = "destroy"
    /\ block_call.device_memory \in block_call.mapped_before
    /\ Len(block_call.calls) = 2
    /\ block_call.calls[1].fn = "unmap_memory"
    /\ block_call.calls[2].fn = "free_memory"
    /\ blocks # {}

(***************************************************************************)
(* Properties of is_on_same_page                                           *)
(***************************************************************************)
\* C9: is_on_same_page returns false whenever the preceding span has size
\* zero, whatever its offset.
C9_ZeroSizeIsNeverOnSamePage ==
    (geom.fn = "is_on_same_page" /\ geom.size_a = 0) =>
        (~geom.panicked /\ ~geom.same_page)

\* Whether the last byte of the span and off_b lie in the same page, in
\* unbounded integers.
SamePageByDivision ==
    (geom.off_a + geom.size_a - 1) \div geom.page = geom.off_b \div geom.page

\* C10 as stated: for every size_a >= 1 and every off_a, off_b and page the
\* call returns, and returns true exactly when the last byte of the span and
\* off_b have the same quotient by page.
C10_SamePageIffSameQuotient ==
    (geom.fn = "is_on_same_page" /\ geom.size_a >= 1) =>
        (~geom.panicked /\ (geom.same_page <=> SamePageByDivision))

\* C10 amended: the same for the spans whose end off_a + size_a is
\* representable in u64; and no call that passes the zero guard with a
\* representable end panics on off_a + size_a - 1.
C10_SamePageIffSameQuotientInRange ==
    (geom.fn = "is_on_same_page" /\ geom.off_a + geom.size_a <= U64Max) =>
        /\ ~geom.panicked
        /\ geom.size_a >= 1 => (geom.same_page <=> SamePageByDivision)

\* A span whose first and last byte lie in different pages, found to share
\* the page of off_b through its last byte.
C10_Witness ==
    /\ geom.fn = "is_on_same_page"
    /\ geom.size_a >= 2
    /\ geom.off_a + geom.size_a <= U64Max
    /\ geom.off_a \div geom.page # (geom.off_a + geom.size_a - 1) \div geom.page
    /\ geom.same_page
    /\ SamePageByDivision

(***************************************************************************)
(* Properties of align_up and align_down                                   *)
(***************************************************************************)
MultiplesOf(a) == {m \in 0 .. U64Max : m % a = 0}

\* C12: for a power-of-two a and x with x + a - 1 representable, align_up(x, a)
\* is the smallest multiple of a that is >= x and align_down(x, a) the largest
\* multiple of a that is <= x; both differ from x by less than a, and applying
\* either to its own result returns that result.
C12_AlignRoundsToNearestMultiple ==
    (geom.fn \in {"align_up", "align_down"}
        /\ geom.off_a + geom.page - 1 <= U64Max) =>
        LET x == geom.off_a
            a == geom.page
            r == geom.aligned
        IN  /\ ~geom.panicked
            /\ r \in MultiplesOf(a)
            /\ geom.fn = "align_up" =>
                /\ x <= r
                /\ \A m \in MultiplesOf(a) : m >= x => r <= m
                /\ r - x < a
                /\ ~align_up_overflows(r, a)
                /\ align_up(r, a) = r
            /\ geom.fn = "align_down" =>
                /\ r <= x
                /\ \A m \in MultiplesOf(a) : m <= x => m <= r
                /\ x - r < a
                /\ ~align_down_overflows(r, a)
                /\ align_down(r, a) = r

\* align_up moving an unaligned offset at the top of the range up to the
\* next multiple.
C12_Witness ==
    /\ geom.fn = "align_up"
    /\ geom.page >= 2
    /\ geom.off_a > GeomSpan
    /\ geom.off_a % geom.page # 0
    /\ geom.off_a + geom.page - 1 <= U64Max
    /\ geom.aligned = geom.off_a + (geom.page - (geom.off_a % geom.page))

(***************************************************************************)
(* Properties of the linear allocator                                      *)
(***************************************************************************)
\* C5: free_all returns the linear allocator to its initial state (cursor 0,
\* no previous allocation): the requests made after it have the outcomes and
\* offsets they have on a fresh allocator, and a second free_all in a row
\* changes nothing.
C5_FreeAllRestoresInitialState ==
    /\ [](/\ lin_run.last_op = "free_all" =>
               (lin.cursor = 0 /\ ~lin.has_previous /\ lin = LinearAllocator_new)
          /\ lin_run.replaying => lin_run.log = lin_run.ref_log)
    /\ [][(lin_run.last_op = "free_all" /\ lin_run'.last_op = "free_all") => lin' = lin]_vars

\* After a free_all that released bytes, three replayed requests of which one
\* was pushed past a granularity page and one failed.
C5_Witness ==
    /\ lin_run.replaying
    /\ lin_run.freed > 0
    /\ Len(lin_run.log) = MaxReplay
    /\ lin_run.log = lin_run.ref_log
    /\ \E i \in DOMAIN lin_run.log : ~lin_run.log[i].ok
    /\ \E i \in DOMAIN lin_run.log :
           /\ lin_run.log[i].ok
           /\ lin_run.log[i].offset > 0
           /\ lin_run.log[i].offset = buffer_image_granularity
           /\ \E j \in DOMAIN lin_run.log :
                  /\ j < i /\ lin_run.log[j].ok
                  /\ lin_run.log[j].offset + lin_run.log[j].size < lin_run.log[i].offset

(***************************************************************************)
(* Properties of the general allocator                                     *)
(***************************************************************************)
BlocksOf(self) == {self[tb[1]][tb[2]] : tb \in AllBlocks(self)}

ChunkSizes(block) ==
    SumOver([i \in DOMAIN block.chunks |-> block.chunks[i].size], DOMAIN block.chunks)

\* C2: after any sequence of successful or failed allocate and free calls the
\* chunks of every block, in offset order, partition [0, block_size): the
\* first starts at 0, each starts where its predecessor ends, the last ends
\* at block_size, and the sizes sum to the block size.
C2_ChunksTileEveryBlock ==
    \A block \in BlocksOf(gen) :
        LET chunks == block.chunks
        IN  /\ Len(chunks) >= 1
            /\ chunks[1].offset = 0
            /\ \A i \in 1 .. (Len(chunks) - 1) :
                   /\ chunks[i].offset < chunks[i + 1].offset
                   /\ chunks[i + 1].offset = chunks[i].offset + chunks[i].size
            /\ chunks[Len(chunks)].offset + chunks[Len(chunks)].size = block.size
            /\ ChunkSizes(block) = block.size

\* A failed allocate with two blocks reserved, one of them split into an
\* occupied chunk, a free padding chunk and a second occupied chunk.
C2_Witness ==
    /\ gen_call.op = "allocate"
    /\ ~gen_call.ok
    /\ reserved_blocks(gen) = max_blocks_per_type
    /\ \E block \in BlocksOf(gen) :
           /\ Len(block.chunks) >= 3
           /\ ~block.chunks[1].is_free
           /\ block.chunks[2].is_free
           /\ ~block.chunks[3].is_free

PageOf(byte) == byte - (byte % buffer_image_granularity)

\* C3: no two adjacent occupied chunks of one block of which exactly one is an
\* OptimalImage have the last byte of the first and the first byte of the
\* second in the same granularity page.
C3_NoMixedLinearityOnOnePage ==
    \A block \in BlocksOf(gen) :
        \A i \in 1 .. (Len(block.chunks) - 1) :
            LET a == block.chunks[i]
                b == block.chunks[i + 1]
            IN  (/\ ~a.is_free
                 /\ ~b.is_free
                 /\ (a.allocation_type = "OptimalImage") # (b.allocation_type = "OptimalImage"))
                => PageOf(a.offset + a.size - 1) # PageOf(b.offset)

\* A linear image and an optimal image in adjacent chunks, the second starting
\* a new page, in a block that also served a request another block took.
C3_Witness ==
    /\ reserved_blocks(gen) >= 1
    /\ \E block \in BlocksOf(gen) :
           \E i \in 1 .. (Len(block.chunks) - 1) :
               /\ block.chunks[i].allocation_type = "LinearImage"
               /\ block.chunks[i + 1].allocation_type = "OptimalImage"
               /\ block.chunks[i + 1].offset = block.chunks[i].offset + block.chunks[i].size
               /\ PageOf(block.chunks[i].offset) # PageOf(block.chunks[i + 1].offset)

\* C4: once every handle has been freed, in whatever order, allocated() is 0
\* and every block holds exactly one chunk, free and spanning the block; no
\* free releases a block, so size() and reserved_blocks() keep their values.
C4_FreeingAllRestoresWholeBlocks ==
    /\ [](gen_handles = {} =>
            /\ allocated(gen) = 0
            /\ \A block \in BlocksOf(gen) :
                   block.chunks = << FreeChunk(0, block.size) >>)
    /\ [][Cardinality(gen_handles') < Cardinality(gen_handles) =>
            /\ reserved_size(gen') = reserved_size(gen)
            /\ reserved_blocks(gen') = reserved_blocks(gen)]_vars

\* Two regions in two blocks, both freed again.
C4_Witness ==
    /\ gen_call.op = "free"
    /\ gen_handles = {}
    /\ reserved_blocks(gen) = max_blocks_per_type
    /\ allocated(gen) = 0
    /\ \A block \in BlocksOf(gen) : Len(block.chunks) = 1

====
